---- MODULE Spec2Model ----
(***************************************************************************)
(* pyinfra-wireguard: reconciliation of /etc/wireguard/wg0.conf on one     *)
(* managed host by the deploys deploy_wg_child and deploy_wg_mother.       *)
(*                                                                         *)
(* Text is modelled line by line: a file or a snippet is a sequence of     *)
(* lines, a line is a tuple of the literal part of its format string       *)
(* followed by the values substituted into it; <<>> is an empty line.      *)
(* Every snippet the program builds ends with a newline, so the sequence   *)
(* of lines is the text.                                                   *)
(*                                                                         *)
(* The pyinfra operations are executed in program order, each one acting   *)
(* on the file as the previous one left it.                                *)
(***************************************************************************)
EXTENDS Integers, Sequences, FiniteSets, TLC

VARIABLES
    file,      \* the remote file CONFIG_PATH: [exists, lines, mode]
    store,     \* the local password store: entry -> stdout of `pass show entry`
    last,      \* what the latest pass did (history of one pass)
    rendered   \* latest call of a renderer: its arguments and its result

vars == <<file, store, last, rendered>>

(***************************************************************************)
(* Bounds and input domains                                                *)
(***************************************************************************)
MaxPeers == 2

\* declared addresses; the empty one is an address left out
Addresses == {"10.0.0.1/24", ""}
ListenPorts == {"", "51820"}
PassEntries == {"e1"}
PassEntryArgs == {""} \cup PassEntries
\* private keys `wg genkey` may print, and the public key `wg pubkey` derives
PrivKeys == {"k1", "k2"}
PubOf(k) == IF k = "k1" THEN "P1" ELSE "P2"
\* what `wg genkey` may leave on stdout: a key, or nothing when it exits with
\* an error (its return code is not looked at)
GenKeyOutputs == PrivKeys \cup {""}
\* what `wg pubkey` leaves on stdout, stderr included (stderr=STDOUT), when
\* fed k: the public key, or its error message when k is no key
WG_KEY_ERROR == "wg: Key is not the correct length or format"
PubKeyOutput(k) == IF k \in PrivKeys THEN PubOf(k) ELSE WG_KEY_ERROR
\* declared children (hostname, PublicKey, AllowedIps)
Children == { <<"c1", "PA", "10.0.0.2/32">>,
              <<"c2", "PB", "10.0.0.3/32">> }
Endpoints == {"", "1.2.3.4:51820"}
\* the mother a child is declared with (hostname, PublicKey, AllowedIps, Endpoint)
Mothers == { <<"m", "PM", "10.0.0.0/24", "1.2.3.4:51820">> }

RECURSIVE SeqsUpTo(_, _)
SeqsUpTo(S, n) ==
    IF n = 0 THEN {<<>>}
    ELSE LET shorter == SeqsUpTo(S, n - 1)
         IN  shorter \cup { Append(s, x) : s \in shorter, x \in S }

\* declared peer lists: distinct children in any order, or one child repeated
PeerLists ==
    { peers \in SeqsUpTo(Children, MaxPeers) :
        \/ \A i, j \in DOMAIN peers : i /= j => peers[i] /= peers[j]
        \/ \A i \in DOMAIN peers : peers[i] = peers[1] }

(***************************************************************************)
(* Strings with or without a trailing newline (process output)             *)
(***************************************************************************)
Str(s) == [text |-> s, nl |-> FALSE]
Line(s) == [text |-> s, nl |-> TRUE]
\* str.strip() of a one-line output
strip(out) == out.text

(***************************************************************************)
(* config.py: rendering                                                    *)
(***************************************************************************)
CONFIG_PATH == "/etc/wireguard/wg0.conf"

PEER_CONFIG(peer, pubkey, allowed_ips) ==
    << <<>>,
       <<"# ", peer>>,
       <<"[Peer]">>,
       <<"PublicKey = ", pubkey>>,
       <<"AllowedIps = ", allowed_ips>> >>

peer_config_always_endpoint(peer, pubkey, allowed_ips, endpoint) ==
    PEER_CONFIG(peer, pubkey, allowed_ips)
        \o << <<"Endpoint = ", endpoint>>, <<"PersistentKeepalive = 25">> >>

peer_config(peer, pubkey, allowed_ips, endpoint) ==
    IF endpoint /= ""
    THEN PEER_CONFIG(peer, pubkey, allowed_ips)
            \o << <<"Endpoint = ", endpoint>>, <<"PersistentKeepalive = 25">> >>
    ELSE PEER_CONFIG(peer, pubkey, allowed_ips)

INTERFACE(privkey, address) ==
    << <<"[Interface]">>,
       <<"PrivateKey = ", privkey>>,
       <<"Address = ", address>> >>

peers_config_first_only(peers) ==
    IF peers = <<>> THEN <<>>
    ELSE LET p == Head(peers)
         IN  peer_config(p[1], p[2], p[3], p[4])

RECURSIVE peers_config(_)
\* the loop of full_config over peers, in the order of the list
peers_config(peers) ==
    IF peers = <<>> THEN <<>>
    ELSE LET p == Head(peers)
         IN  peer_config(p[1], p[2], p[3], p[4]) \o peers_config(Tail(peers))

full_config_peers_first(privkey, address, peers, listen_port) ==
    peers_config(peers)
        \o INTERFACE(privkey, address)
        \o (IF listen_port /= "" THEN << <<"ListenPort = ", listen_port>> >> ELSE <<>>)

full_config(privkey, address, peers, listen_port) ==
    INTERFACE(privkey, address)
        \o (IF listen_port /= "" THEN << <<"ListenPort = ", listen_port>> >> ELSE <<>>)
        \o peers_config(peers)

(***************************************************************************)
(* __init__.py: the package-level renderers and child deploy               *)
(***************************************************************************)
init_peer_config(peer, pubkey, allowed_ips, endpoint) ==
    << <<>>,
       <<"# ", peer>>,
       <<"[Peer]">>,
       <<"PublicKey = ", pubkey>>,
       <<"AllowedIps = ", allowed_ips>>,
       <<"Endpoint = ", endpoint>>,
       <<"PersistentKeepalive = 25">> >>

CHILD_CONFIG(privkey, address) ==
    << <<>>,
       <<"[Interface]">>,
       <<"PrivateKey = ", privkey>>,
       <<"Address = ", address>> >>

RECURSIVE init_peers_config(_)
init_peers_config(peers) ==
    IF peers = <<>> THEN <<>>
    ELSE LET p == Head(peers)
         IN  init_peer_config(p[1], p[2], p[3], p[4]) \o init_peers_config(Tail(peers))

init_full_config(privkey, address, peers) ==
    CHILD_CONFIG(privkey, address) \o init_peers_config(peers)

(***************************************************************************)
(* Collaborators: pyinfra facts and operations on the remote file          *)
(***************************************************************************)
NoFile == [exists |-> FALSE, lines |-> <<>>, mode |-> ""]

FindInFile_never(f, pattern) == FALSE

FindInFile_first_line(f, pattern) ==
    f.exists /\ f.lines /= <<>> /\ Len(f.lines[1]) >= 1 /\ f.lines[1][1] = pattern

\* host.get_fact(FindInFile, path, pattern): the lines matching pattern; falsy
\* when the file is absent (None) or no line matches ([])
FindInFile(f, pattern) ==
    f.exists /\ \E i \in DOMAIN f.lines :
                    Len(f.lines[i]) >= 1 /\ f.lines[i][1] = pattern

files_put_default_mode(f, content, mode) ==
    LET new == [exists |-> TRUE, lines |-> content, mode |-> "644"]
    IN  [file |-> new, changed |-> (new /= f)]

\* files.put(src=StringIO(content), dest=CONFIG_PATH, mode=mode): replaces the
\* whole file; changed iff content or mode differ from what is there
files_put(f, content, mode) ==
    LET new == [exists |-> TRUE, lines |-> content, mode |-> mode]
    IN  [file |-> new, changed |-> (new /= f)]

\* files.block is called with path, content and backup only: the block is
\* delimited by the operation's default markers, whatever the content is
MARK_BEGIN == <<"# BEGIN PYINFRA BLOCK">>
MARK_END == <<"# END PYINFRA BLOCK">>

MarkIndex(lines, mark, from) ==
    LET hits == { i \in DOMAIN lines : i >= from /\ lines[i] = mark }
    IN  IF hits = {} THEN 0 ELSE CHOOSE i \in hits : \A j \in hits : i <= j

\* the Block fact: has the file a marked block, and the lines inside it
Block(f) ==
    LET b == MarkIndex(f.lines, MARK_BEGIN, 1)
        e == IF b = 0 THEN 0 ELSE MarkIndex(f.lines, MARK_END, b + 1)
    IN  [found |-> f.exists /\ b > 0 /\ e > 0,
         begin |-> b,
         end |-> e,
         content |-> IF b > 0 /\ e > 0 THEN SubSeq(f.lines, b + 1, e - 1) ELSE <<>>]

files_block_append_always(f, content) ==
    [file |-> [exists |-> TRUE,
               lines |-> f.lines \o <<MARK_BEGIN>> \o content \o <<MARK_END>>,
               mode |-> IF f.exists THEN f.mode ELSE "644"],
     changed |-> TRUE]

\* files.block(path=CONFIG_PATH, content=content, backup=True)
files_block(f, content) ==
    LET cur == Block(f)
    IN  IF ~f.exists
        THEN [file |-> [exists |-> TRUE,
                        lines |-> <<MARK_BEGIN>> \o content \o <<MARK_END>>,
                        mode |-> "644"],
              changed |-> TRUE]
        ELSE IF ~cur.found
        THEN [file |-> [f EXCEPT !.lines = f.lines \o <<MARK_BEGIN>> \o content
                                                   \o <<MARK_END>>],
              changed |-> TRUE]
        ELSE IF cur.content /= content
        THEN [file |-> [f EXCEPT !.lines = SubSeq(f.lines, 1, cur.begin) \o content
                                    \o SubSeq(f.lines, cur.end, Len(f.lines))],
              changed |-> TRUE]
        ELSE [file |-> f, changed |-> FALSE]

\* systemd.service(service="wg-quick@wg0", enabled, running, restarted)
systemd_service(enabled, running, restarted) ==
    [service |-> "wg-quick@wg0", enabled |-> enabled, running |-> running,
     restarted |-> restarted]

(***************************************************************************)
(* secrets.py                                                              *)
(***************************************************************************)
\* get_pass(filename): stdout of `pass show filename`; exit() when pass is
\* not installed
get_pass(st, filename, passOk) ==
    [exited |-> ~passOk, out |-> IF passOk THEN st[filename] ELSE Str("")]

generate_private_wg_key_stale(wgOk, k) ==
    [exited |-> ~wgOk,
     failed |-> ~wgOk \/ k \notin PrivKeys,
     privkey |-> IF wgOk THEN strip(Line(k)) ELSE "",
     pubkey |-> IF wgOk THEN strip(Line(PubKeyOutput("k1"))) ELSE ""]

\* generate_private_wg_key_locally(): k is what `wg genkey` prints;
\* exit(1) when wg is not installed; failed tells that no key was generated
generate_private_wg_key_locally(wgOk, k) ==
    [exited |-> ~wgOk,
     failed |-> ~wgOk \/ k \notin PrivKeys,
     privkey |-> IF wgOk THEN strip(Line(k)) ELSE "",
     pubkey |-> IF wgOk THEN strip(Line(PubKeyOutput(k))) ELSE ""]

store_public_key_always_insert(st, pubkey, pass_entry, passOk) ==
    LET g == get_pass(st, pass_entry, passOk)
    IN  IF g.exited
        THEN [store |-> st, exited |-> TRUE, read |-> <<>>, inserts |-> <<>>]
        ELSE [store |-> [st EXCEPT ![pass_entry] = Line(pubkey)],
              exited |-> FALSE, read |-> <<g.out>>, inserts |-> <<pubkey>>]

\* store_public_key_in_pass(pubkey, pass_entry); `pass insert -e` stores the
\* line it reads
store_public_key_in_pass(st, pubkey, pass_entry, passOk) ==
    LET g == get_pass(st, pass_entry, passOk)
    IN  IF g.exited
        THEN [store |-> st, exited |-> TRUE, read |-> <<>>, inserts |-> <<>>]
        ELSE IF Str(pubkey) /= g.out
        THEN [store |-> [st EXCEPT ![pass_entry] = Line(pubkey)],
              exited |-> FALSE, read |-> <<g.out>>, inserts |-> <<pubkey>>]
        ELSE [store |-> st, exited |-> FALSE, read |-> <<g.out>>, inserts |-> <<>>]

(***************************************************************************)
(* config.py: the deploys.  Each returns what the pass did: the file and   *)
(* the store it leaves, and the calls it made, in order.                   *)
(***************************************************************************)
NoKey == [exited |-> FALSE, failed |-> FALSE, privkey |-> "", pubkey |-> ""]
NoStore(st) == [store |-> st, exited |-> FALSE, read |-> <<>>, inserts |-> <<>>]

\* lines 73-82 and 104-113: the branch taken when no "PrivateKey = " line is
\* found; key is what generate_private_wg_key_locally returned and content
\* the text built from its private key and handed to files.put
Provision(f, st, key, content, pass_entry, passOk) ==
    IF key.exited
    THEN [file |-> f, keygen |-> 1, key |-> key, puts |-> <<>>,
          changed |-> FALSE, sec |-> NoStore(st), secret_calls |-> <<>>,
          exited |-> TRUE]
    ELSE LET put == files_put(f, content, "600")
             sec == IF pass_entry /= ""
                    THEN store_public_key_in_pass(st, key.pubkey, pass_entry, passOk)
                    ELSE NoStore(st)
         IN  [file |-> put.file, keygen |-> 1, key |-> key,
              puts |-> << [content |-> put.file.lines, mode |-> put.file.mode,
                           changed |-> put.changed, wrote |-> (put.file /= f)] >>,
              changed |-> put.changed, sec |-> sec,
              secret_calls |-> IF pass_entry /= ""
                               THEN << [pubkey |-> key.pubkey, entry |-> pass_entry] >>
                               ELSE <<>>,
              exited |-> sec.exited]

NoProvision(f, st) ==
    [file |-> f, keygen |-> 0, key |-> NoKey, puts |-> <<>>, changed |-> FALSE,
     sec |-> NoStore(st), secret_calls |-> <<>>, exited |-> FALSE]

NoBlocks == [changed |-> <<>>, wrote |-> <<>>]

\* the account of one pass: its declaration, what it found (existed,
\* provisioned) and the calls it made with their results
Account(role, decl, before, prov, blk, service) ==
    [role |-> role, decl |-> decl,
     existed |-> before.exists,
     provisioned |-> FindInFile(before, "PrivateKey = "),
     keygen |-> prov.keygen, keyfail |-> prov.key.failed,
     privkey |-> prov.key.privkey, pubkey |-> prov.key.pubkey,
     puts |-> prov.puts, secret_calls |-> prov.secret_calls,
     read |-> prov.sec.read, inserts |-> prov.sec.inserts,
     blocks |-> blk.changed, block_wrote |-> blk.wrote,
     service |-> service, exited |-> prov.exited]

\* what a pass leaves: the file, the store, and its account
Outcome(role, decl, before, prov, fileAfter, blk, service) ==
    [file |-> fileAfter, store |-> prov.sec.store,
     account |-> Account(role, decl, before, prov, blk, service)]

\* deploy_wg_child of config.py
deploy_wg_child(f, st, address, mother, pass_entry, wgOk, passOk, k) ==
    LET key == generate_private_wg_key_locally(wgOk, k)
        content == full_config(key.privkey, address, <<mother>>, "")
        prov == IF ~FindInFile(f, "PrivateKey = ")
                THEN Provision(f, st, key, content, pass_entry, passOk)
                ELSE NoProvision(f, st)
        decl == [address |-> address, mother |-> mother, pass_entry |-> pass_entry]
    IN  Outcome("child", decl, f, prov, prov.file, NoBlocks,
                IF prov.exited THEN <<>>
                ELSE << systemd_service(TRUE, TRUE, FALSE) >>)

\* deploy_wg_child of __init__.py
init_deploy_wg_child(f, st, address, mother, pass_entry, wgOk, passOk, k) ==
    LET key == generate_private_wg_key_locally(wgOk, k)
        content == init_full_config(key.privkey, address, <<mother>>)
        prov == IF ~FindInFile(f, "PrivateKey = ")
                THEN Provision(f, st, key, content, pass_entry, passOk)
                ELSE NoProvision(f, st)
        decl == [address |-> address, mother |-> mother, pass_entry |-> pass_entry]
    IN  Outcome("init_child", decl, f, prov, prov.file, NoBlocks,
                IF prov.exited THEN <<>>
                ELSE << systemd_service(TRUE, TRUE, FALSE) >>)

RECURSIVE mother_blocks(_, _)
\* lines 115-123: one files.block per declared child, in the declared order;
\* returns the file, the changed flag of each call and whether the call wrote
mother_blocks(f, peers) ==
    IF peers = <<>> THEN [file |-> f, changed |-> <<>>, wrote |-> <<>>]
    ELSE LET child == Head(peers)
             child_config == peer_config(child[1], child[2], child[3], "")
             peer_added == files_block(f, child_config)
             rest == mother_blocks(peer_added.file, Tail(peers))
         IN  [file |-> rest.file,
              changed |-> <<peer_added.changed>> \o rest.changed,
              wrote |-> <<peer_added.file /= f>> \o rest.wrote]

reload_config_interface_only(interface_changed, blocks_changed) ==
    interface_changed

reload_config_overwritten(interface_changed, blocks_changed) ==
    IF blocks_changed = <<>> THEN interface_changed
    ELSE blocks_changed[Len(blocks_changed)]

\* lines 103, 111, 123: reload_config |= ... over the put and every block
reload_config(interface_changed, blocks_changed) ==
    interface_changed \/ \E i \in DOMAIN blocks_changed : blocks_changed[i]

\* deploy_wg_mother of config.py
deploy_wg_mother(f, st, address, listen_port, peers, pass_entry, wgOk, passOk, k) ==
    LET key == generate_private_wg_key_locally(wgOk, k)
        content == full_config(key.privkey, address, <<>>, listen_port)
        prov == IF ~FindInFile(f, "PrivateKey = ")
                THEN Provision(f, st, key, content, pass_entry, passOk)
                ELSE NoProvision(f, st)
        blk == IF prov.exited THEN [file |-> prov.file, changed |-> <<>>, wrote |-> <<>>]
               ELSE mother_blocks(prov.file, peers)
        decl == [address |-> address, listen_port |-> listen_port, peers |-> peers,
                 pass_entry |-> pass_entry]
    IN  Outcome("mother", decl, f, prov, blk.file, blk,
                IF prov.exited THEN <<>>
                ELSE << systemd_service(TRUE, TRUE,
                                        reload_config(prov.changed, blk.changed)) >>)

(***************************************************************************)
(* The state machine: passes against one host, one at a time               *)
(***************************************************************************)
\* a file somebody left there without a private key
Unkeyed == [exists |-> TRUE, lines |-> << <<"[Interface]">> >>, mode |-> "644"]

NoPass == Account("none", <<>>, NoFile, NoProvision(NoFile, <<>>), NoBlocks, <<>>)
NoRender == [fn |-> "none"]

\* the tools matter only to a pass that runs them
Tool(f) == IF FindInFile(f, "PrivateKey = ") THEN {TRUE} ELSE BOOLEAN
GenKeys(f) == IF FindInFile(f, "PrivateKey = ") THEN {"k1"} ELSE GenKeyOutputs

Init ==
    /\ file \in {NoFile, Unkeyed}
    /\ store \in [PassEntries -> {Str(""), Str("P1")}]
    /\ last = NoPass
    /\ rendered = NoRender

Commit(o) ==
    /\ file' = o.file
    /\ store' = o.store
    /\ last' = o.account
    /\ UNCHANGED rendered

ChildPass ==
    \E address \in Addresses, mother \in Mothers, pass_entry \in PassEntryArgs,
       wgOk \in Tool(file), passOk \in Tool(file), k \in GenKeys(file) :
        Commit(deploy_wg_child(file, store, address, mother, pass_entry, wgOk, passOk, k))

InitChildPass ==
    \E address \in Addresses, mother \in Mothers, pass_entry \in PassEntryArgs,
       wgOk \in Tool(file), passOk \in Tool(file), k \in GenKeys(file) :
        Commit(init_deploy_wg_child(file, store, address, mother, pass_entry,
                                    wgOk, passOk, k))

MotherPass ==
    \E address \in Addresses, listen_port \in ListenPorts, peers \in PeerLists,
       pass_entry \in PassEntryArgs,
       wgOk \in Tool(file), passOk \in Tool(file), k \in GenKeys(file) :
        Commit(deploy_wg_mother(file, store, address, listen_port, peers, pass_entry,
                                wgOk, passOk, k))

Next == ChildPass \/ InitChildPass \/ MotherPass

Spec == Init /\ [][Next]_vars

(***************************************************************************)
(* The renderers on their own: every call over the input domains           *)
(***************************************************************************)
PeerNames == {"c1", "c2", "m"}
PeerPubKeys == {"PA", "PB"}
AllowedIpsArgs == {"10.0.0.2/32", "10.0.0.0/24"}
RenderPeers == { <<"c1", "PA", "10.0.0.2/32", "">>,
                 <<"c2", "PB", "10.0.0.3/32", "">>,
                 <<"m", "PM", "10.0.0.0/24", "1.2.3.4:51820">> }

InitRender ==
    /\ file = NoFile
    /\ store = [e \in PassEntries |-> Str("")]
    /\ last = NoPass
    /\ rendered = NoRender

RenderPeer ==
    \E peer \in PeerNames, pubkey \in PeerPubKeys, allowed_ips \in AllowedIpsArgs,
       endpoint \in Endpoints :
        /\ rendered' = [fn |-> "peer_config",
                        args |-> <<peer, pubkey, allowed_ips, endpoint>>,
                        out |-> peer_config(peer, pubkey, allowed_ips, endpoint)]
        /\ UNCHANGED <<file, store, last>>

RenderFull ==
    \E privkey \in PrivKeys, address \in Addresses,
       peers \in SeqsUpTo(RenderPeers, MaxPeers), listen_port \in ListenPorts :
        /\ rendered' = [fn |-> "full_config",
                        args |-> <<privkey, address, peers, listen_port>>,
                        out |-> full_config(privkey, address, peers, listen_port)]
        /\ UNCHANGED <<file, store, last>>

NextRender == RenderPeer \/ RenderFull

SpecRender == InitRender /\ [][NextRender]_vars

(***************************************************************************)
(* Reading a config file back: its sections, as wg-quick would see them    *)
(***************************************************************************)
IsLine(l, key) == Len(l) >= 1 /\ l[1] = key

PrivateKeysOf(f) ==
    IF f.exists
    THEN { f.lines[i][2] : i \in { j \in DOMAIN f.lines : IsLine(f.lines[j], "PrivateKey = ") } }
    ELSE {}

HasPrivateKey(f) == PrivateKeysOf(f) /= {}

\* a section ends before an empty line, a marker line or a section header
Boundary(l) ==
    l = <<>> \/ l = MARK_BEGIN \/ l = MARK_END \/ l = <<"[Peer]">> \/ l = <<"[Interface]">>

SectionEnd(lines, i) ==
    LET stops == { j \in DOMAIN lines : j > i /\ Boundary(lines[j]) }
    IN  IF stops = {} THEN Len(lines)
        ELSE (CHOOSE j \in stops : \A k \in stops : j <= k) - 1

InterfaceIndexes(lines) == { i \in DOMAIN lines : lines[i] = <<"[Interface]">> }
PeerIndexes(lines) == { i \in DOMAIN lines : lines[i] = <<"[Peer]">> }

\* the [Interface] section(s) of the file, header included
InterfaceSections(f) ==
    { SubSeq(f.lines, i, SectionEnd(f.lines, i)) : i \in InterfaceIndexes(f.lines) }

\* a PeerBlock: the name in the comment above [Peer], and the lines from that
\* comment to the end of the section
PeerBlockAt(lines, i) ==
    LET named == i > 1 /\ Len(lines[i - 1]) = 2 /\ lines[i - 1][1] = "# "
    IN  [name |-> IF named THEN lines[i - 1][2] ELSE "",
         lines |-> SubSeq(lines, IF named THEN i - 1 ELSE i, SectionEnd(lines, i))]

RECURSIVE PeerBlocksFrom(_, _)
PeerBlocksFrom(lines, i) ==
    IF i > Len(lines) THEN <<>>
    ELSE (IF i \in PeerIndexes(lines) THEN <<PeerBlockAt(lines, i)>> ELSE <<>>)
            \o PeerBlocksFrom(lines, i + 1)

\* the PeerBlocks of the file, in file order
PeerBlocks(f) == PeerBlocksFrom(f.lines, 1)

BlocksNamed(f, name) ==
    { i \in DOMAIN PeerBlocks(f) : PeerBlocks(f)[i].name = name }

HasKey(block, key) == \E i \in DOMAIN block.lines : IsLine(block.lines[i], key)

\* the PeerBlock a declared child (hostname, PublicKey, AllowedIps) stands for
ChildBlock(child) ==
    [name |-> child[1],
     lines |-> << <<"# ", child[1]>>, <<"[Peer]">>, <<"PublicKey = ", child[2]>>,
                  <<"AllowedIps = ", child[3]>> >>]

DistinctNames(peers) ==
    \A i, j \in DOMAIN peers : i /= j => peers[i][1] /= peers[j][1]

Completed(l) == l.role /= "none" /\ ~l.exited
Restarted(l) == l.service /= <<>> /\ l.service[1].restarted

(***************************************************************************)
(* Claims                                                                  *)
(***************************************************************************)

\* C1: a mother pass run a second time with the identical declaration leaves
\* the file byte-identical, performs no file write and no peer-block change,
\* and requests the service with restart = false.
C1_SecondRunIsNoOp ==
    [][ ( /\ last.role = "mother" /\ Completed(last)
          /\ last'.role = "mother" /\ Completed(last')
          /\ last'.decl = last.decl )
        => ( /\ file' = file
             /\ last'.puts = <<>>
             /\ \A i \in DOMAIN last'.blocks : ~last'.blocks[i] /\ ~last'.block_wrote[i]
             /\ ~Restarted(last') ) ]_vars

\* C2: in every reachable config file each peer name is carried by at most
\* one PeerBlock, and a mother pass whose declared list is one child repeated
\* N >= 1 times leaves exactly one PeerBlock for that child.
C2_NoDuplicatePeer ==
    /\ \A i, j \in DOMAIN PeerBlocks(file) :
          PeerBlocks(file)[i].name = PeerBlocks(file)[j].name => i = j
    /\ ( /\ last.role = "mother" /\ Completed(last)
         /\ last.decl.peers /= <<>>
         /\ \A i \in DOMAIN last.decl.peers : last.decl.peers[i] = last.decl.peers[1] )
       => Cardinality(BlocksNamed(file, last.decl.peers[1][1])) = 1

C2_Witness ==
    /\ last.role = "mother" /\ Completed(last)
    /\ Len(last.decl.peers) = MaxPeers
    /\ \A i \in DOMAIN last.decl.peers : last.decl.peers[i] = last.decl.peers[1]
    /\ last.provisioned
    /\ Cardinality(BlocksNamed(file, last.decl.peers[1][1])) = 1

\* C3: once the file contains a private key, no later pass of either role
\* invokes key generation or changes the private key stored in the file.
C3_KeyPreserved ==
    [][ HasPrivateKey(file)
        => ( /\ last'.keygen = 0
             /\ PrivateKeysOf(file') = PrivateKeysOf(file) ) ]_vars

C3_Witness ==
    /\ last.role = "mother" /\ last.provisioned /\ Completed(last)
    /\ \E i \in DOMAIN last.block_wrote : last.block_wrote[i]
    /\ <<"Address = ", last.decl.address>> \notin { file.lines[i] : i \in DOMAIN file.lines }
    /\ HasPrivateKey(file)

\* C4: for a mother pass whose declared children have pairwise distinct
\* names, every PeerBlock in the file before the appends is still there
\* afterwards, and at the end of the pass every declared child has its own
\* PeerBlock.
C4_BlocksAccumulate ==
    [][ ( /\ last'.role = "mother" /\ Completed(last')
          /\ DistinctNames(last'.decl.peers) )
        => ( /\ last'.provisioned
                => \A i \in DOMAIN PeerBlocks(file) :
                      \E j \in DOMAIN PeerBlocks(file') :
                          PeerBlocks(file')[j] = PeerBlocks(file)[i]
             /\ \A c \in DOMAIN last'.decl.peers :
                   \E j \in DOMAIN PeerBlocks(file') :
                       PeerBlocks(file')[j] = ChildBlock(last'.decl.peers[c]) ) ]_vars

\* C5: after one mother pass against a host with no config file and declared
\* children c1..cn, the file is one Interface section (generated private key,
\* declared Address and ListenPort) followed by exactly one PeerBlock per
\* declared child, in declared order, none with Endpoint or
\* PersistentKeepalive, and the pass requests restart = true.
C5_FreshMotherFile ==
    ( /\ last.role = "mother" /\ Completed(last) /\ ~last.existed
      /\ DistinctNames(last.decl.peers) )
    => ( /\ InterfaceSections(file) =
              { INTERFACE(last.privkey, last.decl.address)
                  \o (IF last.decl.listen_port /= ""
                      THEN << <<"ListenPort = ", last.decl.listen_port>> >> ELSE <<>>) }
         /\ file.lines[1] = <<"[Interface]">>
         /\ PeerBlocks(file) =
              [i \in DOMAIN last.decl.peers |-> ChildBlock(last.decl.peers[i])]
         /\ Restarted(last) )

\* C6: a mother pass that reaches its service request asks for enabled and
\* running, and for restart exactly when the interface put or at least one
\* peer block wrote to the file during the pass; every pass that is not cut
\* short by a missing tool reaches that request.
C6_RestartAggregation ==
    (last.role = "mother" /\ Completed(last))
    => ( /\ Len(last.service) = 1
         /\ last.service[1].enabled /\ last.service[1].running
         /\ last.service[1].restarted
               <=> ( \/ \E i \in DOMAIN last.puts : last.puts[i].wrote
                     \/ \E i \in DOMAIN last.block_wrote : last.block_wrote[i] ) )

C6_Witness ==
    /\ last.role = "mother" /\ Completed(last)
    /\ last.provisioned /\ last.puts = <<>>
    /\ Len(last.decl.peers) = 1 /\ last.block_wrote = <<TRUE>>
    /\ Restarted(last)

\* C7: a child pass that finds no "PrivateKey = " line and whose key
\* generation returns runs it once, puts with mode 600 the full config of
\* (the private key returned, address, [mother]) holding exactly one
\* PeerBlock, the mother's, calls the secret store with the public key
\* returned iff a pass entry was declared, and leaves a file the next pass
\* finds provisioned.
KeygenExited(l) == l.keygen = 1 /\ l.puts = <<>>

ChildRoles == {"child", "init_child"}

ChildText(l) ==
    IF l.role = "child"
    THEN full_config(l.privkey, l.decl.address, <<l.decl.mother>>, "")
    ELSE init_full_config(l.privkey, l.decl.address, <<l.decl.mother>>)

C7_ChildProvisioning ==
    /\ []( ( /\ last.role \in ChildRoles /\ ~last.provisioned /\ ~KeygenExited(last) )
           => ( /\ last.keygen = 1
                /\ last.privkey \in GenKeyOutputs
                /\ last.pubkey = PubKeyOutput(last.privkey)
                /\ Len(last.puts) = 1
                /\ last.puts[1].mode = "600"
                /\ last.puts[1].content = ChildText(last)
                /\ file.lines = last.puts[1].content /\ file.mode = "600"
                /\ Len(PeerBlocks(file)) = 1
                /\ PeerBlocks(file)[1].name = last.decl.mother[1]
                /\ <<"PublicKey = ", last.decl.mother[2]>>
                      \in { PeerBlocks(file)[1].lines[i] :
                              i \in DOMAIN PeerBlocks(file)[1].lines }
                /\ PrivateKeysOf(file) = {last.privkey}
                /\ last.secret_calls =
                      ( IF last.decl.pass_entry /= ""
                        THEN << [pubkey |-> last.pubkey, entry |-> last.decl.pass_entry] >>
                        ELSE <<>> ) ) )
    /\ [][ ( /\ last.role \in ChildRoles /\ ~last.provisioned /\ ~KeygenExited(last) )
           => last'.provisioned ]_vars

C7_Witness ==
    /\ last.role = "child" /\ ~last.provisioned /\ ~last.keyfail
    /\ last.decl.pass_entry /= ""
    /\ Len(last.secret_calls) = 1
    /\ Len(last.puts) = 1
    /\ HasPrivateKey(file)

\* C8: a pass that finds a private key in the file generates no key, puts no
\* file and neither reads nor writes the secret store; a child pass leaves
\* the file byte-unchanged and only requests the service enabled and running
\* without restart; a mother pass leaves the Interface section byte-unchanged
\* whatever address and listen port it declares.
C8_ProvisionedFrame ==
    [][ HasPrivateKey(file)
        => ( /\ last'.provisioned
             /\ last'.keygen = 0
             /\ last'.puts = <<>>
             /\ last'.secret_calls = <<>> /\ last'.read = <<>> /\ last'.inserts = <<>>
             /\ store' = store
             /\ last'.role \in ChildRoles
                   => ( /\ file' = file
                        /\ last'.blocks = <<>>
                        /\ last'.service = << systemd_service(TRUE, TRUE, FALSE) >> )
             /\ last'.role = "mother"
                   => InterfaceSections(file') = InterfaceSections(file) ) ]_vars

C8_Witness ==
    /\ last.role = "mother" /\ last.provisioned /\ Completed(last)
    /\ last.decl.listen_port /= ""
    /\ \A s \in InterfaceSections(file) :
          /\ <<"ListenPort = ", last.decl.listen_port>> \notin { s[i] : i \in DOMAIN s }
          /\ <<"Address = ", last.decl.address>> \notin { s[i] : i \in DOMAIN s }
    /\ InterfaceSections(file) /= {}

\* C9: peer_config(name, pubkey, allowed_ips, endpoint) holds the lines
\* "Endpoint = <endpoint>" and "PersistentKeepalive = 25" iff endpoint is not
\* empty; with an empty endpoint it holds neither line nor an empty line in
\* their place.
OutLines(r) == { r.out[i] : i \in DOMAIN r.out }

C9_ConditionalEndpoint ==
    rendered.fn = "peer_config"
    => LET endpoint == rendered.args[4]
           n == Len(rendered.out)
       IN  /\ endpoint /= ""
              => ( /\ n = 7
                   /\ rendered.out[6] = <<"Endpoint = ", endpoint>>
                   /\ rendered.out[7] = <<"PersistentKeepalive = 25">> )
           /\ endpoint = ""
              => ( /\ n = 5
                   /\ \A i \in 1..n : ~IsLine(rendered.out[i], "Endpoint = ")
                                      /\ ~IsLine(rendered.out[i], "PersistentKeepalive = 25")
                   /\ \A i \in 2..n : rendered.out[i] /= <<>> )
           /\ rendered.out[n - (IF endpoint /= "" THEN 2 ELSE 0)]
                 = <<"AllowedIps = ", rendered.args[3]>>

C9_Witness ==
    /\ rendered.fn = "peer_config"
    /\ rendered.args[4] = ""
    /\ <<"PublicKey = ", rendered.args[2]>> \in OutLines(rendered)
    /\ <<"PersistentKeepalive = 25">> \notin OutLines(rendered)

\* C10: the secret store changes only by an insert of a pass that generated
\* a keypair for a node with a declared pass entry, the value inserted is the
\* public key of that pass, and the insert happens only when that key differs
\* from the value read from the entry.
C10_StoreWriteGuard ==
    /\ []( /\ last.inserts /= <<>>
              => ( /\ last.keygen = 1
                   /\ last.decl.pass_entry \in PassEntries
                   /\ last.inserts = <<last.pubkey>>
                   /\ Len(last.read) = 1
                   /\ last.read[1] /= Str(last.pubkey) )
           /\ (Len(last.read) = 1 /\ last.read[1] = Str(last.pubkey))
              => last.inserts = <<>> )
    /\ [][ store' /= store
           => ( /\ last'.inserts /= <<>>
                /\ \A e \in PassEntries :
                      store'[e] /= store[e] => e = last'.decl.pass_entry ) ]_vars

C10_Witness ==
    /\ last.role = "mother" /\ last.keygen = 1
    /\ Len(last.read) = 1 /\ last.read[1] = Str(last.pubkey)
    /\ last.inserts = <<>>
    /\ store[last.decl.pass_entry] = Str(last.pubkey)

\* C11: when the secret store cannot be invoked in a pass that provisions a
\* node with a declared pass entry, the file written by the pass stays in
\* place and the rest of the pass is still carried out: one files.block per
\* declared child and the service request, enabled and running.
SecretStoreFailed(l) == l.role /= "none" /\ l.exited /\ l.secret_calls /= <<>>

C11_StoreFailureNotFatal ==
    (SecretStoreFailed(last) /\ ~last.keyfail)
    => ( /\ Len(last.puts) = 1
         /\ file.exists /\ HasPrivateKey(file)
         /\ SubSeq(file.lines, 1, Len(last.puts[1].content)) = last.puts[1].content
         /\ Len(last.service) = 1
         /\ last.service[1].enabled /\ last.service[1].running
         /\ last.role = "mother" => Len(last.blocks) = Len(last.decl.peers) )

\* C12: when key generation fails for an unprovisioned node the pass stops
\* before any effect: it puts no file, inserts nothing into the secret store,
\* and no file ever carries a PrivateKey that is not the output of a
\* successful key generation.
C12_KeygenFailureAborts ==
    /\ (last.keygen = 1 /\ last.keyfail)
       => ( /\ last.puts = <<>>
            /\ last.secret_calls = <<>> /\ last.inserts = <<>>
            /\ last.exited )
    /\ PrivateKeysOf(file) \subseteq PrivKeys

\* C13: a pass declared with an empty required field (the address of a node
\* being provisioned) is refused before any write: it puts no file, and no
\* file ever carries an empty Address.
C13_MalformedInputRefused ==
    (last.role /= "none" /\ ~last.keyfail)
    => ( /\ (~last.provisioned /\ last.decl.address = "") => last.puts = <<>>
         /\ \A i \in DOMAIN last.puts :
               <<"Address = ", "">> \notin { last.puts[i].content[j] :
                                               j \in DOMAIN last.puts[i].content } )

\* C14: every config file the passes leave holds exactly one [Interface]
\* section, and it comes before every [Peer] block.
C14_OneInterfaceFirst ==
    (file.exists /\ last.role /= "none")
    => ( /\ Cardinality(InterfaceIndexes(file.lines)) = 1
         /\ \A i \in InterfaceIndexes(file.lines), p \in PeerIndexes(file.lines) : i < p )

C14_Witness ==
    /\ last.role = "mother" /\ last.provisioned /\ Completed(last)
    /\ Cardinality(PeerIndexes(file.lines)) = 2
    /\ Cardinality(InterfaceIndexes(file.lines)) = 1
    /\ \E i \in DOMAIN last.block_wrote : last.block_wrote[i]

PeerText(p) == peer_config(p[1], p[2], p[3], p[4])

RECURSIVE PeersLength(_, _)
\* lines taken by the first n elements of peers
PeersLength(peers, n) ==
    IF n = 0 THEN 0 ELSE PeersLength(peers, n - 1) + Len(PeerText(peers[n]))

\* C15: full_config returns the Interface section of (privkey, address), then
\* a ListenPort line exactly when listen_port is not empty, then peer_config
\* of each element of peers, once each and in the caller's order.
C15_FullConfigLayout ==
    rendered.fn = "full_config"
    => LET privkey == rendered.args[1]
           address == rendered.args[2]
           peers == rendered.args[3]
           listen_port == rendered.args[4]
           out == rendered.out
           head == IF listen_port /= "" THEN 4 ELSE 3
       IN  /\ Len(out) = head + PeersLength(peers, Len(peers))
           /\ out[1] = <<"[Interface]">>
           /\ out[2] = <<"PrivateKey = ", privkey>>
           /\ out[3] = <<"Address = ", address>>
           /\ listen_port /= "" => out[4] = <<"ListenPort = ", listen_port>>
           /\ (\E i \in DOMAIN out : IsLine(out[i], "ListenPort = ")) <=> listen_port /= ""
           /\ \A n \in DOMAIN peers :
                SubSeq(out, head + PeersLength(peers, n - 1) + 1,
                            head + PeersLength(peers, n)) = PeerText(peers[n])

C15_Witness ==
    /\ rendered.fn = "full_config"
    /\ rendered.args[4] /= ""
    /\ Len(rendered.args[3]) = 2
    /\ rendered.args[3][1] /= rendered.args[3][2]
    /\ rendered.args[3][1][4] /= ""
    /\ Len(rendered.out) = 4 + 7 + 5

PutWrote(l) == \E i \in DOMAIN l.puts : l.puts[i].wrote
PutChanged(l) == \E i \in DOMAIN l.puts : l.puts[i].changed
FileWritten(l) == PutWrote(l) \/ \E i \in DOMAIN l.block_wrote : l.block_wrote[i]

PutPrivateKeys(l) ==
    UNION { { l.puts[i].content[j][2] :
                j \in { n \in DOMAIN l.puts[i].content :
                          IsLine(l.puts[i].content[n], "PrivateKey = ") } } :
            i \in DOMAIN l.puts }

\* C17: in a pass that hands a public key to the secret store, that key is
\* what `wg pubkey` gave for the private key the same pass generated, and
\* that private key is the one the pass put into the config file and the one
\* the file holds after the pass.
C17_KeyPairOfOnePass ==
    (last.role /= "none" /\ last.secret_calls /= <<>>)
    => ( /\ last.keygen = 1 /\ ~last.provisioned
         /\ Len(last.secret_calls) = 1
         /\ last.secret_calls[1].pubkey = last.pubkey
         /\ last.pubkey = PubKeyOutput(last.privkey)
         /\ last.privkey \in PrivKeys => last.pubkey = PubOf(last.privkey)
         /\ Len(last.puts) = 1
         /\ PutPrivateKeys(last) = {last.privkey}
         /\ PrivateKeysOf(file) = {last.privkey}
         /\ \A i \in DOMAIN last.inserts : last.inserts[i] = last.pubkey )

C17_Witness ==
    /\ last.role = "mother" /\ ~last.provisioned
    /\ last.privkey = "k2"
    /\ Len(last.secret_calls) = 1
    /\ last.secret_calls[1].pubkey = PubOf("k2")
    /\ last.inserts = << PubOf("k2") >>
    /\ PrivateKeysOf(file) = {"k2"}

PubKeys == { PubOf(k) : k \in PrivKeys }

\* C18: every value this system writes to a secret-store entry is a public
\* key, and no generated private key is handed to the secret store.
C18_StoreHoldsPublicKeys ==
    /\ \A i \in DOMAIN last.inserts :
          last.inserts[i] \in PubKeys /\ last.inserts[i] \notin PrivKeys
    /\ \A i \in DOMAIN last.secret_calls :
          last.secret_calls[i].pubkey \notin PrivKeys
    /\ \A e \in PassEntries : store[e].text \in PubKeys \cup {""}

====
